---- MODULE Spec2Model ----
(***************************************************************************)
(* Timer-backed Scheduler / Worker of reactor_core_ts (src/schedulers.ts)  *)
(* and its Disposable implementations (disposable.ts).                     *)
(*                                                                         *)
(* The host's timer primitives (setTimeout, setInterval, clearTimeout,     *)
(* clearInterval) are modelled as a table of callbacks, `host`, indexed by *)
(* timer identifier, plus the set `armed` of identifiers that can still    *)
(* fire.  Identifiers are handed out 1, 2, 3, ... and never reused.        *)
(*                                                                         *)
(* A callback is recorded the way the source passes it to the host:        *)
(*   "task"                     the user's closure itself (line 17)        *)
(*   "DefaultScheduler.initial" the arrow function of lines 27-33          *)
(*   "DefaultWorker.initial"    the arrow function of lines 80-88          *)
(*   "PeriodicTask.run", "WorkerTask.run", "WorkerPeriodicTask.run"        *)
(*                              the method, read off the object and handed *)
(*                              over without its receiver (lines 30, 66,   *)
(*                              83); the host calls it with its own `this`.*)
(***************************************************************************)
EXTENDS Integers, Sequences, FiniteSets, TLC

\* Bounds of the model
MaxTasks == 2
MaxWorkers == 1
MaxDispose == 2
\* Bounds of the virtual-clock specification
MaxTime == 4
MaxTimedTasks == 1
\* its inputs: initialDelay, period, and the time one execution takes
Delays == {0, 1}
Periods == {1, 2}
Durations == {0, 1}

\* `undefined` for the optional numeric fields id / initialId / periodId
Undefined == 0
\* the receiver the host's timer dispatch supplies to a callback (the global
\* object): it is no instance of any task class and has none of their members
HostThis == "globalThis"
\* what a user closure may do when it is executed
Behaviours == {"ok", "throw", "dispose", "shutdown"}

VARIABLES
    host,       \* host timer table: host[id] = [fn, t, repeat, spent]
    armed,      \* identifiers of timers that are armed
    worker,     \* worker[w] = [shutdown, timeouts, intervals]
    task,       \* task[t] = the handle returned for the t-th scheduling call
    execs,      \* execs[t] = number of executions of the t-th task closure
    raised,     \* raised[t] = an execution of the t-th task closure raised
    cbRuns,     \* cbRuns[t] = invocations of the CallbackDisposable's closure
    disposed,   \* disposed[t] = the caller has called dispose() on handle t
    thrown,     \* error that escaped the last operation ("none" if none)
    now,        \* virtual clock
    due,        \* due[id] = virtual time at which timer id is due next
    opts,       \* opts[t] = [at, initialDelay, period] of a periodic task
    fires       \* fires[t] = virtual times at which timers of task t fired

timing == <<now, due, opts, fires>>
vars == <<host, armed, worker, task, execs, raised, cbRuns, disposed, thrown, timing>>

\* The part of the state the program's functions read and write.
St == [host |-> host, armed |-> armed, worker |-> worker, task |-> task,
       execs |-> execs, raised |-> raised, cbRuns |-> cbRuns, err |-> "none"]

Tasks(S) == 1..Len(S.task)
\* `self` is an instance of a task class (and not the host's receiver)
IsTask(S, self) == self # HostThis /\ self \in Tasks(S)
Workers(S) == 1..Len(S.worker)

----------------------------------------------------------------------------
\* Host timer primitives

NextTimerId(S) == Len(S.host) + 1

setTimeout(S, fn, t) ==
    [S EXCEPT !.host = Append(@, [fn |-> fn, t |-> t, repeat |-> FALSE, spent |-> FALSE]),
              !.armed = @ \cup {NextTimerId(S)}]

setInterval(S, fn, t) ==
    [S EXCEPT !.host = Append(@, [fn |-> fn, t |-> t, repeat |-> TRUE, spent |-> FALSE]),
              !.armed = @ \cup {NextTimerId(S)}]

clearTimeout(S, id) == [S EXCEPT !.armed = @ \ {id}]

clearInterval(S, id) == [S EXCEPT !.armed = @ \ {id}]

----------------------------------------------------------------------------
\* Array helpers (0-based, as in the source)

indexOf(arr, x) ==
    IF \E i \in 1..Len(arr) : arr[i] = x
    THEN (CHOOSE i \in 1..Len(arr) : arr[i] = x /\ \A j \in 1..(i-1) : arr[j] # x) - 1
    ELSE -1

\* Array.prototype.splice(idx, 1); a negative idx counts from the end
splice1(arr, idx) ==
    LET start == IF idx < 0
                 THEN (IF Len(arr) + idx < 0 THEN 0 ELSE Len(arr) + idx)
                 ELSE (IF idx > Len(arr) THEN Len(arr) ELSE idx)
    IN  IF start >= Len(arr) THEN arr
        ELSE SubSeq(arr, 1, start) \o SubSeq(arr, start + 2, Len(arr))

Range(arr) == {arr[i] : i \in 1..Len(arr)}

----------------------------------------------------------------------------
\* DefaultWorker

NewWorker == [shutdown |-> FALSE, timeouts |-> <<>>, intervals |-> <<>>]

createWorker(S) == [S EXCEPT !.worker = Append(@, NewWorker)]

removeTimeout_noIdxCheck(S, w, id) ==
    IF id # Undefined
    THEN [S EXCEPT !.worker[w].timeouts = splice1(@, indexOf(@, id))]
    ELSE S

removeTimeout(S, w, id) ==
    IF id # Undefined
    THEN LET idx == indexOf(S.worker[w].timeouts, id)
         IN  IF idx >= 0
             THEN [S EXCEPT !.worker[w].timeouts = splice1(@, idx)]
             ELSE S
    ELSE S

removeInterval_noIdxCheck(S, w, id) ==
    IF id # Undefined
    THEN [S EXCEPT !.worker[w].intervals = splice1(@, indexOf(@, id))]
    ELSE S

removeInterval(S, w, id) ==
    IF id # Undefined
    THEN LET idx == indexOf(S.worker[w].intervals, id)
         IN  IF idx >= 0
             THEN [S EXCEPT !.worker[w].intervals = splice1(@, idx)]
             ELSE S
    ELSE S

\* cancelling every timer of the host instead of the worker's own
shutdown_allTimers(S, w) ==
    [S EXCEPT !.worker[w].shutdown = TRUE,
              !.armed = {},
              !.worker[w].intervals = <<>>,
              !.worker[w].timeouts = <<>>]

\* removing the entries inside the forEach loops skips every second entry
EvenEntries(arr) == [i \in 1..(Len(arr) \div 2) |-> arr[2 * i]]
shutdown_removeWhileIterating(S, w) ==
    [S EXCEPT !.worker[w].shutdown = TRUE,
              !.armed = @ \ ((Range(S.worker[w].intervals) \ Range(EvenEntries(S.worker[w].intervals)))
                             \cup (Range(S.worker[w].timeouts) \ Range(EvenEntries(S.worker[w].timeouts)))),
              !.worker[w].intervals = EvenEntries(@),
              !.worker[w].timeouts = EvenEntries(@)]

shutdown_keepTimeouts(S, w) ==
    [S EXCEPT !.worker[w].shutdown = TRUE,
              !.armed = @ \ Range(S.worker[w].intervals),
              !.worker[w].intervals = <<>>]

shutdown(S, w) ==
    [S EXCEPT !.worker[w].shutdown = TRUE,
              !.armed = (@ \ Range(S.worker[w].intervals)) \ Range(S.worker[w].timeouts),
              !.worker[w].intervals = <<>>,
              !.worker[w].timeouts = <<>>]

----------------------------------------------------------------------------
\* Handles

NewHandle(class, w) ==
    [class |-> class, w |-> w, id |-> Undefined, initialId |-> Undefined,
     periodId |-> Undefined, callback |-> (class \in {"CallbackDisposable", "REJECTED"})]

\* a scheduling call: the closure it is given becomes task t = Len(task) + 1
addTask(S, h) ==
    [S EXCEPT !.task = Append(@, h), !.execs = Append(@, 0),
              !.raised = Append(@, FALSE), !.cbRuns = Append(@, 0)]

\* CallbackDisposable.dispose: this.#callback?.()
\* The closure of DefaultScheduler.schedule is () => clearTimeout(id); the one
\* of Disposables.REJECTED is () => {} and changes nothing.
CallbackDisposable_dispose(S, t) ==
    IF S.task[t].callback
    THEN IF S.task[t].class = "REJECTED"
         THEN S
         ELSE [clearTimeout(S, S.task[t].id) EXCEPT !.cbRuns[t] = @ + 1]
    ELSE S

PeriodicTask_dispose_initialOnly(S, t) ==
    IF S.task[t].initialId # Undefined THEN clearTimeout(S, S.task[t].initialId) ELSE S

PeriodicTask_dispose(S, t) ==
    LET S1 == IF S.task[t].initialId # Undefined
              THEN clearTimeout(S, S.task[t].initialId) ELSE S
    IN  IF S1.task[t].periodId # Undefined
        THEN clearInterval(S1, S1.task[t].periodId) ELSE S1

WorkerTask_dispose_noClear(S, t) ==
    removeTimeout(S, S.task[t].w, S.task[t].id)

WorkerTask_dispose(S, t) ==
    removeTimeout(clearTimeout(S, S.task[t].id), S.task[t].w, S.task[t].id)

WorkerPeriodicTask_dispose(S, t) ==
    LET S1 == IF S.task[t].initialId # Undefined
              THEN removeTimeout(clearTimeout(S, S.task[t].initialId),
                                 S.task[t].w, S.task[t].initialId)
              ELSE S
    IN  IF S1.task[t].periodId # Undefined
        THEN removeInterval(clearInterval(S1, S1.task[t].periodId),
                            S1.task[t].w, S1.task[t].periodId)
        ELSE S1

\* handle.dispose(), dispatched on the class of the handle
dispose(S, t) ==
    CASE S.task[t].class \in {"CallbackDisposable", "REJECTED"} -> CallbackDisposable_dispose(S, t)
      [] S.task[t].class = "PeriodicTask" -> PeriodicTask_dispose(S, t)
      [] S.task[t].class = "WorkerTask" -> WorkerTask_dispose(S, t)
      [] S.task[t].class = "WorkerPeriodicTask" -> WorkerPeriodicTask_dispose(S, t)

----------------------------------------------------------------------------
\* Execution of the user's closure t, doing b

call(S, t, b) ==
    LET S1 == [S EXCEPT !.execs[t] = @ + 1]
    IN  CASE b = "ok" -> S1
          [] b = "throw" -> [S1 EXCEPT !.raised[t] = TRUE, !.err = "Error"]
          [] b = "dispose" -> dispose(S1, t)
          [] b = "shutdown" -> IF S1.task[t].w # 0 THEN shutdown(S1, S1.task[t].w) ELSE S1

----------------------------------------------------------------------------
\* DefaultScheduler

DefaultScheduler_schedule(S) ==
    LET t == Len(S.task) + 1
        id == NextTimerId(S)
    IN  addTask(setTimeout(S, "task", t),
                [NewHandle("CallbackDisposable", 0) EXCEPT !.id = id])

DefaultScheduler_schedulePeriodically(S) ==
    LET t == Len(S.task) + 1
        id == NextTimerId(S)
    IN  addTask(setTimeout(S, "DefaultScheduler.initial", t),
                [NewHandle("PeriodicTask", 0) EXCEPT !.initialId = id])

\* the arrow function of lines 27-33, fired by the initial timer
DefaultScheduler_initial(S, t, b) ==
    LET S1 == call(S, t, b)
    IN  IF S1.err # "none" THEN S1
        ELSE [setInterval(S1, "PeriodicTask.run", t)
                EXCEPT !.task[t].periodId = NextTimerId(S1)]

\* PeriodicTask.run with receiver self.  With a receiver that is no task,
\* this._task is undefined and the call raises a TypeError inside the try;
\* the catch block's this.dispose is undefined as well and raises again.
PeriodicTask_run(S, self, b) ==
    IF IsTask(S, self)
    THEN LET S1 == call(S, self, b)
         IN  IF S1.err # "none"
             THEN PeriodicTask_dispose([S1 EXCEPT !.err = "none"], self)
             ELSE S1
    ELSE [S EXCEPT !.err = "TypeError"]

----------------------------------------------------------------------------
\* DefaultWorker scheduling

DefaultWorker_schedule_ignoreShutdown(S, w) ==
    LET t == Len(S.task) + 1
        id == NextTimerId(S)
        S1 == setTimeout(S, "WorkerTask.run", t)
    IN  addTask([S1 EXCEPT !.worker[w].timeouts = Append(@, id)],
                [NewHandle("WorkerTask", w) EXCEPT !.id = id])

DefaultWorker_schedule(S, w) ==
    IF S.worker[w].shutdown
    THEN addTask(S, NewHandle("REJECTED", w))
    ELSE LET t == Len(S.task) + 1
             id == NextTimerId(S)
             S1 == setTimeout(S, "WorkerTask.run", t)
         IN  addTask([S1 EXCEPT !.worker[w].timeouts = Append(@, id)],
                     [NewHandle("WorkerTask", w) EXCEPT !.id = id])

\* the handle's initialId is not assigned here: line 80 keeps the identifier
\* in a local constant and line 90 records it in #timeouts only
DefaultWorker_schedulePeriodically(S, w) ==
    IF S.worker[w].shutdown
    THEN addTask(S, NewHandle("REJECTED", w))
    ELSE LET t == Len(S.task) + 1
             initialId == NextTimerId(S)
             S1 == setTimeout(S, "DefaultWorker.initial", t)
         IN  addTask([S1 EXCEPT !.worker[w].timeouts = Append(@, initialId)],
                     NewHandle("WorkerPeriodicTask", w))

\* the arrow function of lines 80-88, fired by the initial timer
DefaultWorker_initial(S, t, b) ==
    LET S1 == call(S, t, b)
        w == S.task[t].w
        periodId == NextTimerId(S1)
    IN  IF S1.err # "none" THEN S1
        ELSE [setInterval(S1, "WorkerPeriodicTask.run", t)
                EXCEPT !.worker[w].intervals = Append(@, periodId),
                       !.task[t].periodId = periodId]

\* WorkerTask.run with receiver self.  With a receiver that is no WorkerTask,
\* reading the private member this.#task raises a TypeError, and so does
\* this.#parent in the finally block: nothing runs and nothing is removed.
WorkerTask_run(S, self, b) ==
    IF IsTask(S, self)
    THEN LET S1 == call(S, self, b)
         IN  removeTimeout(S1, S1.task[self].w, S1.task[self].id)
    ELSE [S EXCEPT !.err = "TypeError"]

\* WorkerPeriodicTask.run with receiver self.  With a receiver that is no
\* task, this._task() raises a TypeError inside the try; in the catch block
\* this.periodId is undefined, so nothing is cleared and the error is dropped.
WorkerPeriodicTask_run(S, self, b) ==
    IF IsTask(S, self)
    THEN LET S1 == call(S, self, b)
         IN  IF S1.err # "none"
             THEN LET S2 == [S1 EXCEPT !.err = "none"]
                      periodId == S2.task[self].periodId
                  IN  IF periodId # Undefined
                      THEN removeInterval(clearInterval(S2, periodId), S2.task[self].w, periodId)
                      ELSE S2
             ELSE S1
    ELSE S

----------------------------------------------------------------------------
\* The host fires timer id: a one-shot timer is spent (it has fired and is no
\* longer armed) before its callback runs, a recurring timer stays armed; a
\* method handed over without its receiver runs with HostThis.

fire(S, id, b) ==
    LET cb == S.host[id]
        S0 == [S EXCEPT !.host[id].spent = ~cb.repeat]
        S1 == IF cb.repeat THEN S0 ELSE [S0 EXCEPT !.armed = @ \ {id}]
    IN  CASE cb.fn = "task" -> call(S1, cb.t, b)
          [] cb.fn = "DefaultScheduler.initial" -> DefaultScheduler_initial(S1, cb.t, b)
          [] cb.fn = "DefaultWorker.initial" -> DefaultWorker_initial(S1, cb.t, b)
          [] cb.fn = "PeriodicTask.run" -> PeriodicTask_run(S1, HostThis, b)
          [] cb.fn = "WorkerTask.run" -> WorkerTask_run(S1, HostThis, b)
          [] cb.fn = "WorkerPeriodicTask.run" -> WorkerPeriodicTask_run(S1, HostThis, b)

----------------------------------------------------------------------------
\* Specification

PutState(S, d) ==
    /\ host' = S.host
    /\ armed' = S.armed
    /\ worker' = S.worker
    /\ task' = S.task
    /\ execs' = S.execs
    /\ raised' = S.raised
    /\ cbRuns' = S.cbRuns
    /\ thrown' = S.err
    /\ disposed' = IF Len(S.task) > Len(d) THEN Append(d, FALSE) ELSE d

\* an operation of a run in which the clock plays no part
Put(S, d) ==
    /\ PutState(S, d)
    /\ UNCHANGED timing

Init ==
    /\ host = <<>>
    /\ armed = {}
    /\ worker = <<>>
    /\ task = <<>>
    /\ execs = <<>>
    /\ raised = <<>>
    /\ cbRuns = <<>>
    /\ disposed = <<>>
    /\ thrown = "none"
    /\ now = 0
    /\ due = <<>>
    /\ opts = <<>>
    /\ fires = <<>>

CreateWorker ==
    /\ Len(worker) < MaxWorkers
    /\ Put(createWorker(St), disposed)

SchedulerSchedule ==
    /\ Len(task) < MaxTasks
    /\ Put(DefaultScheduler_schedule(St), disposed)

SchedulerSchedulePeriodically ==
    /\ Len(task) < MaxTasks
    /\ Put(DefaultScheduler_schedulePeriodically(St), disposed)

WorkerSchedule(w) ==
    /\ Len(task) < MaxTasks
    /\ Put(DefaultWorker_schedule(St, w), disposed)

WorkerSchedulePeriodically(w) ==
    /\ Len(task) < MaxTasks
    /\ Put(DefaultWorker_schedulePeriodically(St, w), disposed)

Shutdown(w) ==
    Put(shutdown(St, w), disposed)

\* the caller calls dispose() on handle t (the count of cleanup runs of a
\* CallbackDisposable is capped to keep the model finite)
Dispose(t) ==
    /\ cbRuns[t] < MaxDispose
    /\ Put(dispose(St, t), [disposed EXCEPT ![t] = TRUE])

FireTimer(id, b) ==
    Put(fire(St, id, b), disposed)

Next ==
    \/ CreateWorker
    \/ SchedulerSchedule
    \/ SchedulerSchedulePeriodically
    \/ \E w \in Workers(St) : WorkerSchedule(w)
    \/ \E w \in Workers(St) : WorkerSchedulePeriodically(w)
    \/ \E w \in Workers(St) : Shutdown(w)
    \/ \E t \in Tasks(St) : Dispose(t)
    \/ \E id \in armed, b \in Behaviours : FireTimer(id, b)

Spec == Init /\ [][Next]_vars

\* The same operations on a scheduler of which createWorker() has been called
\* twice: two fresh workers, and tasks scheduled on either or on the scheduler.
InitTwoWorkers ==
    /\ host = <<>>
    /\ armed = {}
    /\ worker = <<NewWorker, NewWorker>>
    /\ task = <<>>
    /\ execs = <<>>
    /\ raised = <<>>
    /\ cbRuns = <<>>
    /\ disposed = <<>>
    /\ thrown = "none"
    /\ now = 0
    /\ due = <<>>
    /\ opts = <<>>
    /\ fires = <<>>

NextTwoWorkers ==
    \/ SchedulerSchedule
    \/ SchedulerSchedulePeriodically
    \/ \E w \in Workers(St) : WorkerSchedule(w)
    \/ \E w \in Workers(St) : WorkerSchedulePeriodically(w)
    \/ \E w \in Workers(St) : Shutdown(w)
    \/ \E t \in Tasks(St) : Dispose(t)
    \/ \E id \in armed, b \in Behaviours : FireTimer(id, b)

SpecTwoWorkers == InitTwoWorkers /\ [][NextTwoWorkers]_vars

----------------------------------------------------------------------------
\* Periodic tasks against a virtual clock.  A timer armed at time T with
\* timeout d is due at T + d; the host fires a timer when it is due, and a
\* recurring timer is due again one period after each due time (a host
\* without drift).  An execution of the closure takes d units of time, so
\* what the callback does after task() returns happens d later.

TimedArm(S, delay, period) ==
    /\ PutState(S, disposed)
    /\ thrown' = "none"
    /\ now' = now
    /\ due' = Append(due, now + delay)
    /\ opts' = Append(opts, [at |-> now, initialDelay |-> delay, period |-> period])
    /\ fires' = Append(fires, <<>>)

TimedSchedulePeriodically(delay, period) ==
    /\ Len(task) < MaxTimedTasks
    /\ TimedArm(DefaultScheduler_schedulePeriodically(St), delay, period)

TimedWorkerSchedulePeriodically(w, delay, period) ==
    /\ Len(task) < MaxTimedTasks
    /\ ~worker[w].shutdown
    /\ TimedArm(DefaultWorker_schedulePeriodically(St, w), delay, period)

Tick ==
    /\ now < MaxTime
    /\ \A id \in armed : due[id] > now
    /\ now' = now + 1
    /\ UNCHANGED <<host, armed, worker, task, execs, raised, cbRuns, disposed, thrown, due, opts, fires>>

\* the host fires the due timer id; the closure, if it runs, takes d
TimedFire(id, d) ==
    LET t == host[id].t
        F == fire(St, id, "ok")
        end == IF F.execs[t] > execs[t] THEN now + d ELSE now
    IN  /\ due[id] <= now
        /\ end <= MaxTime
        /\ PutState(F, disposed)
        /\ now' = end
        /\ fires' = [fires EXCEPT ![t] = Append(@, now)]
        /\ due' = [i \in 1..Len(F.host) |->
                      IF i > Len(host) THEN end + opts[t].period
                      ELSE IF i = id /\ host[id].repeat THEN due[id] + opts[t].period
                      ELSE due[i]]
        /\ opts' = opts

NextTimed ==
    \/ CreateWorker
    \/ \E delay \in Delays, period \in Periods : TimedSchedulePeriodically(delay, period)
    \/ \E w \in Workers(St), delay \in Delays, period \in Periods :
          TimedWorkerSchedulePeriodically(w, delay, period)
    \/ Tick
    \/ \E id \in armed, d \in Durations : TimedFire(id, d)

SpecTimed == Init /\ [][NextTimed]_vars

----------------------------------------------------------------------------
\* Properties

TaskIds == 1..Len(task)
WorkerIds == 1..Len(worker)
\* the timers the host holds, or has held, for task t
TimersOf(t) == {id \in 1..Len(host) : host[id].t = t}
ArmedOf(t) == TimersOf(t) \cap armed
\* no timer of task t has fired
NeverFired(t) == \A id \in TimersOf(t) : ~host[id].spent
IsWorkerTask(t) == task[t].class \in {"WorkerTask", "WorkerPeriodicTask"}
TasksOfWorker(w) == {t \in TaskIds : IsWorkerTask(t) /\ task[t].w = w}
Tracked(w) == Range(worker[w].timeouts) \cup Range(worker[w].intervals)

\* C1: a scheduling call on a worker that is already shut down returns the
\* REJECTED sentinel, arms no timer and leaves the host's timers and the
\* worker's collections as they were; the closure it was given is never
\* executed and no timer ever refers to it.
C1_RejectedStep ==
    \A w \in WorkerIds :
        (worker[w].shutdown /\ Len(task') = Len(task) + 1 /\ task'[Len(task')].w = w)
        => /\ task'[Len(task')].class = "REJECTED"
           /\ host' = host
           /\ armed' = armed
           /\ worker' = worker
C1_RejectedAfterShutdown ==
    /\ [][C1_RejectedStep]_vars
    /\ [](\A t \in TaskIds : task[t].class = "REJECTED" => execs[t] = 0 /\ TimersOf(t) = {})
C1_Witness ==
    \E t \in TaskIds : task[t].class = "REJECTED" /\ worker[task[t].w].shutdown

\* C2: once a worker is shut down, a task of it none of whose timers had
\* fired has no armed timer and has never executed; if that is so for all of
\* the worker's tasks, both tracking collections are empty.
C2_ShutdownCancelsAll ==
    \A w \in WorkerIds :
        worker[w].shutdown =>
            /\ \A t \in TasksOfWorker(w) : NeverFired(t) => execs[t] = 0 /\ ArmedOf(t) = {}
            /\ (\A t \in TasksOfWorker(w) : NeverFired(t))
                   => worker[w].timeouts = <<>> /\ worker[w].intervals = <<>>
C2_Witness ==
    \E w \in WorkerIds :
        /\ worker[w].shutdown
        /\ \E t1, t2 \in TasksOfWorker(w) :
              /\ task[t1].class = "WorkerTask"
              /\ task[t2].class = "WorkerPeriodicTask"
              /\ NeverFired(t1) /\ NeverFired(t2)

\* C3: the one-shot collection of a worker holds exactly the identifiers of
\* its armed one-shot/initial timers and the periodic collection exactly
\* those of its armed recurring timers.
C3_CollectionsTrackArmedTimers ==
    \A w \in WorkerIds :
        /\ Range(worker[w].timeouts) =
              {id \in armed : ~host[id].repeat /\ host[id].t \in TasksOfWorker(w)}
        /\ Range(worker[w].intervals) =
              {id \in armed : host[id].repeat /\ host[id].t \in TasksOfWorker(w)}

\* C4: after the caller has disposed a scheduler-level periodic task no timer
\* of the task is armed; if the initial timer had not fired by then, the
\* closure has never executed and no recurring timer was ever armed.
C4_SchedulerPeriodicDispose ==
    \A t \in TaskIds :
        (task[t].class = "PeriodicTask" /\ disposed[t]) =>
            /\ ArmedOf(t) = {}
            /\ NeverFired(t) => (execs[t] = 0 /\ task[t].periodId = Undefined)
C4_Witness ==
    \E t1, t2 \in TaskIds :
        /\ task[t1].class = "PeriodicTask" /\ disposed[t1] /\ NeverFired(t1)
        /\ task[t2].class = "PeriodicTask" /\ disposed[t2] /\ task[t2].periodId # Undefined

\* C5: after the caller has disposed a worker-scoped periodic task no timer
\* of the task is armed or tracked by the worker; if the initial timer had
\* not fired by then, the closure has never executed and no recurring timer
\* was ever armed.
C5_WorkerPeriodicDispose ==
    \A t \in TaskIds :
        (task[t].class = "WorkerPeriodicTask" /\ disposed[t]) =>
            /\ ArmedOf(t) = {}
            /\ TimersOf(t) \cap Tracked(task[t].w) = {}
            /\ NeverFired(t) => (execs[t] = 0 /\ task[t].periodId = Undefined)

\* C6: once the closure of a periodic task has raised, no timer of the task
\* is armed and, for a worker-scoped task, neither collection of the worker
\* holds an identifier of the task.
C6_ErrorStopsPeriodicTask ==
    \A t \in TaskIds :
        (task[t].class \in {"PeriodicTask", "WorkerPeriodicTask"} /\ raised[t]) =>
            /\ ArmedOf(t) = {}
            /\ task[t].class = "WorkerPeriodicTask" => TimersOf(t) \cap Tracked(task[t].w) = {}

\* C7: in every reachable state and for every handle, dispose() raises no
\* error, and two or three dispose() calls in a row leave the host's timers,
\* the workers and the handles as one call does.
Sys(S) == [host |-> S.host, armed |-> S.armed, worker |-> S.worker, task |-> S.task]
C7_DisposeIdempotent ==
    \A t \in TaskIds :
        LET D1 == dispose(St, t)
            D2 == dispose(D1, t)
            D3 == dispose(D2, t)
        IN  /\ D1.err = "none" /\ D2.err = "none" /\ D3.err = "none"
            /\ Sys(D2) = Sys(D1)
            /\ Sys(D3) = Sys(D1)
C7_Witness ==
    \E t1, t2 \in TaskIds :
        /\ task[t1].class = "WorkerTask" /\ disposed[t1] /\ thrown = "none"
        /\ task[t2].class = "WorkerTask" /\ host[task[t2].id].spent
        /\ worker[task[t2].w].shutdown

\* C8: the cleanup closure of a CallbackDisposable is invoked at most once.
C8_CleanupAtMostOnce ==
    \A t \in TaskIds : cbRuns[t] <= 1

\* C9: a one-shot task whose handle the caller disposed before its timer
\* fired has never executed and its timer is not armed; for a worker-scoped
\* task the identifier is not in the worker's one-shot collection either.
C9_OneShotDisposeBeforeFire ==
    \A t \in TaskIds :
        (task[t].class \in {"CallbackDisposable", "WorkerTask"} /\ disposed[t] /\ NeverFired(t)) =>
            /\ execs[t] = 0
            /\ task[t].id \notin armed
            /\ task[t].class = "WorkerTask" => task[t].id \notin Range(worker[task[t].w].timeouts)
C9_Witness ==
    \E t1, t2 \in TaskIds :
        /\ task[t1].class = "CallbackDisposable" /\ disposed[t1] /\ NeverFired(t1)
        /\ task[t2].class = "WorkerTask" /\ disposed[t2] /\ NeverFired(t2)

\* C10: a one-shot task never executes more than once, and once its timer
\* has fired (so it was not cancelled first) its closure has executed
\* exactly once.
C10_OneShotRunsExactlyOnce ==
    \A t \in TaskIds :
        task[t].class \in {"CallbackDisposable", "WorkerTask"} =>
            /\ execs[t] <= 1
            /\ host[task[t].id].spent => execs[t] = 1

\* the armed timers of task t in a state S of the program
ArmedIn(S, t) == {id \in S.armed : S.host[id].t = t}
IsPeriodic(t) == task[t].class \in {"PeriodicTask", "WorkerPeriodicTask"}

\* C11: every firing of the armed recurring timer of a periodic task whose
\* closure returns normally executes the closure once more and leaves the
\* recurring timer armed.
C11_RecurringFiringRunsClosure ==
    \A id \in armed :
        (host[id].repeat /\ IsPeriodic(host[id].t)) =>
            LET F == fire(St, id, "ok")
            IN  /\ F.execs[host[id].t] = execs[host[id].t] + 1
                /\ id \in F.armed

\* C12: once the timer of a worker's one-shot task has fired, its
\* identifier is not in the worker's one-shot collection.
C12_FiredOneShotUntracked ==
    \A t \in TaskIds :
        (task[t].class = "WorkerTask" /\ host[task[t].id].spent) =>
            task[t].id \notin Range(worker[task[t].w].timeouts)

\* C14: a firing of a periodic task whose closure calls dispose() on the
\* task's own handle runs to completion and leaves no timer of the task armed.
C14_DisposeInsideFiring ==
    \A id \in armed :
        LET t == host[id].t
            F == fire(St, id, "dispose")
        IN  (IsPeriodic(t) /\ F.execs[t] > execs[t]) =>
                (F.err = "none" /\ ArmedIn(F, t) = {})

\* C15: a worker that is shut down owns no armed timer and both of its
\* tracking collections are empty.
C15_ShutdownWorkerOwnsNothing ==
    \A w \in WorkerIds :
        worker[w].shutdown =>
            /\ worker[w].timeouts = <<>>
            /\ worker[w].intervals = <<>>
            /\ \A t \in TasksOfWorker(w) : ArmedOf(t) = {}

\* C16: when the closure raises in a firing, the error does not escape the
\* firing if the task is periodic, and escapes it if the task is one-shot.
C16_PeriodicErrorsSwallowed ==
    \A id \in armed :
        LET t == host[id].t
            F == fire(St, id, "throw")
        IN  F.execs[t] > execs[t] =>
                F.err = (IF IsPeriodic(t) THEN "none" ELSE "Error")

\* C19: a periodic task has at most one armed timer and at most one
\* recurring timer over its life, the recurring timer exists only once the
\* initial timer has fired, and a task that was disposed, whose worker was
\* shut down or whose closure raised has no armed timer.
C19_PeriodicStateMachine ==
    \A t \in TaskIds :
        IsPeriodic(t) =>
            /\ Cardinality(ArmedOf(t)) <= 1
            /\ Cardinality({id \in TimersOf(t) : host[id].repeat}) <= 1
            /\ (\E id \in TimersOf(t) : host[id].repeat) => ~NeverFired(t)
            /\ (disposed[t] \/ raised[t] \/ (task[t].w # 0 /\ worker[task[t].w].shutdown))
                   => ArmedOf(t) = {}

\* C17: shutdown() raises nothing and leaves the worker with its flag set
\* and both collections empty; a second and a third call change nothing
\* more; and no step ever resets the flag of a worker.
C17_FlagStays ==
    \A w \in WorkerIds : worker[w].shutdown => worker'[w].shutdown
C17_ShutdownIdempotent ==
    /\ [][C17_FlagStays]_vars
    /\ [](\A w \in WorkerIds :
            LET D1 == shutdown(St, w)
                D2 == shutdown(D1, w)
                D3 == shutdown(D2, w)
            IN  /\ D1.err = "none"
                /\ D1.worker[w] = [shutdown |-> TRUE, timeouts |-> <<>>, intervals |-> <<>>]
                /\ D2 = D1
                /\ D3 = D1)
C17_Witness ==
    \E w \in WorkerIds :
        /\ worker[w].shutdown
        /\ \E t \in TasksOfWorker(w) : task[t].class = "WorkerPeriodicTask" /\ ~NeverFired(t)
        /\ \E t \in TaskIds : task[t].class = "REJECTED" /\ task[t].w = w

\* C18: removeTimeout(id) and removeInterval(id) take id out of their own
\* collection and change nothing else in the program's state; with an id
\* that is absent or undefined they change nothing at all and raise nothing.
Without(arr, id) == SelectSeq(arr, LAMBDA x : x # id)
C18_RemoveHelpersFrame ==
    \A w \in WorkerIds : \A id \in 0..(Len(host) + 1) :
        LET RT == removeTimeout(St, w, id)
            RI == removeInterval(St, w, id)
        IN  /\ RT = [St EXCEPT !.worker[w].timeouts = Without(@, id)]
            /\ RI = [St EXCEPT !.worker[w].intervals = Without(@, id)]
            /\ id \notin Range(worker[w].timeouts) => RT = St
            /\ id \notin Range(worker[w].intervals) => RI = St
C18_Witness ==
    \E t \in TaskIds :
        /\ task[t].class = "WorkerPeriodicTask" /\ disposed[t]
        /\ task[t].periodId # Undefined
        /\ ~worker[task[t].w].shutdown
        /\ task[t].periodId \notin Range(worker[task[t].w].intervals)
        /\ worker[task[t].w].timeouts # <<>>

\* C20: dispose() on a handle, and a firing of a periodic task whose closure
\* raises, leave the armed timers of every other task, the entries of every
\* other task in the workers' collections and the workers' flags as they
\* were; shutdown() of a worker leaves the armed timers of the tasks it does
\* not own and the other workers as they were; createWorker() adds a worker
\* with empty collections and the flag unset and touches nothing else.
\* What state S holds for the tasks other than t:
Scope(S, t) ==
    [armed |-> {id \in S.armed : S.host[id].t # t},
     tracked |-> [w \in 1..Len(S.worker) |->
                    <<SelectSeq(S.worker[w].timeouts, LAMBDA id : S.host[id].t # t),
                      SelectSeq(S.worker[w].intervals, LAMBDA id : S.host[id].t # t)>>],
     flags |-> [w \in 1..Len(S.worker) |-> S.worker[w].shutdown]]
C20_CancellationScoped ==
    /\ \A t \in TaskIds : Scope(dispose(St, t), t) = Scope(St, t)
    /\ \A id \in armed :
          IsPeriodic(host[id].t) =>
              Scope(fire(St, id, "throw"), host[id].t) = Scope(St, host[id].t)
    /\ \A w \in WorkerIds :
          LET D == shutdown(St, w)
          IN  /\ {id \in D.armed : host[id].t \notin TasksOfWorker(w)}
                   = {id \in armed : host[id].t \notin TasksOfWorker(w)}
              /\ \A w2 \in WorkerIds \ {w} : D.worker[w2] = worker[w2]
    /\ LET N == createWorker(St)
       IN  /\ N.worker = Append(worker, [shutdown |-> FALSE, timeouts |-> <<>>, intervals |-> <<>>])
           /\ N.armed = armed
C20_Witness ==
    \E w1, w2 \in WorkerIds :
        /\ worker[w1].shutdown /\ ~worker[w2].shutdown
        /\ \E t \in TasksOfWorker(w1) : NeverFired(t) /\ ArmedOf(t) = {}
        /\ \E t \in TasksOfWorker(w2) : ArmedOf(t) # {}

\* C13: the N-th firing of a periodic task happens at its schedule time
\* + initialDelay + (N-1) * period, whatever time its executions take.
C13_FixedRate ==
    \A t \in 1..Len(fires) : \A n \in 1..Len(fires[t]) :
        fires[t][n] = opts[t].at + opts[t].initialDelay + (n - 1) * opts[t].period

====
